---- MODULE Spec2Model ----
(***************************************************************************)
(* Model of nxc/helpers/bloodhound.py: the two public operations           *)
(* add_user_bh and mark_web_client_enabled, the account classification     *)
(* and the conditional property write against a BloodHound (Neo4j) graph.  *)
(*                                                                         *)
(* Strings are sequences of one-character strings, so that upper(),        *)
(* split("."), rstrip(","), STARTS WITH and equality are computed the way  *)
(* the code and the Cypher queries compute them.                           *)
(***************************************************************************)
EXTENDS Integers, Sequences, FiniteSets, TLC

VARIABLES graph, doms, pc, op, arg, batch, i, tx, out, exc, fatal,
          openConns, calls, prev, sessions, graph0

vars == <<graph, doms, pc, op, arg, batch, i, tx, out, exc, fatal,
          openConns, calls, prev, sessions, graph0>>

\* The state of calls that run at the same time, each on its own connection
\* and transaction (sessions), and the graph they started from (graph0).
\* Calls made one after the other leave both alone.
cvars == <<sessions, graph0>>

\* The state of the one call of the sequential caller.
svars == <<pc, op, arg, batch, i, tx, out, exc, fatal, openConns, calls, prev>>

(* ------------------------------ bounds -------------------------------- *)

MaxCalls == 2

MaxBatch == 2

(* ------------------------------ strings ------------------------------- *)

None == <<"NONE">>

S_A == <<"A">>

S_a == <<"a">>

S_W == <<"W", "$">>

S_w == <<"w", "$">>

S_W1 == <<"W", "1", "$">>

S_CL == <<"C", ".", "L">>

S_cl == <<"c", ".", "l">>

S_CM == <<"C", ".", "M">>

S_C == <<"C">>

S_X == <<"X">>

S_empty == <<>>

UpperChar(c) ==
    CASE c = "a" -> "A"
      [] c = "c" -> "C"
      [] c = "l" -> "L"
      [] c = "m" -> "M"
      [] c = "w" -> "W"
      [] c = "x" -> "X"
      [] OTHER -> c

Upper(s) == [k \in 1..Len(s) |-> UpperChar(s[k])]

StartsWith(s, p) == Len(p) <= Len(s) /\ SubSeq(s, 1, Len(p)) = p

RECURSIVE Split(_)
Split(s) ==
    IF \E k \in 1..Len(s) : s[k] = "."
    THEN LET k == CHOOSE k \in 1..Len(s) :
                      s[k] = "." /\ \A j \in 1..(k - 1) : s[j] # "."
         IN  <<SubSeq(s, 1, k - 1)>> \o Split(SubSeq(s, k + 1, Len(s)))
    ELSE <<s>>

RECURSIVE JoinDC(_)
JoinDC(parts) ==
    IF parts = <<>> THEN <<>>
    ELSE <<"D", "C", "=">> \o Head(parts) \o <<",">> \o JoinDC(Tail(parts))

RECURSIVE RStripComma(_)
RStripComma(s) ==
    IF s # <<>> /\ s[Len(s)] = ","
    THEN RStripComma(SubSeq(s, 1, Len(s) - 1))
    ELSE s

DistinguishedName(domain) == RStripComma(JoinDC(Split(domain)))

(* ------------------------------ the graph ----------------------------- *)

PropVals == {"null", "false", "true"}

Node(label, name, vo, vw) ==
    [label |-> label, name |-> name, owned |-> vo, webclientrunning |-> vw]

DomainNode(name) == [name |-> name, distinguishedname |-> DistinguishedName(name)]

N_A_CL == <<"A", "@", "C", ".", "L">>

N_A_CM == <<"A", "@", "C", ".", "M">>

N_W_CL == <<"W", ".", "C", ".", "L">>

N_W1_CL == <<"W", "1", ".", "C", ".", "L">>

\* The graphs the calls run against. A graph is the sequence of its nodes in
\* the order the store returns them; a (label, name) pair names one node.
Nodes1(vo, vw) ==
    << Node("User", N_A_CL, vo, vw),
       Node("Computer", N_W_CL, vo, vw),
       Node("Computer", N_W1_CL, vo, vw) >>

Nodes2(vo, vw) == Nodes1(vo, vw) \o << Node("User", N_A_CM, vo, vw) >>

\* One domain, or two domains in either scan order with the same user name
\* in both.
Databases(vo, vw) ==
    { [doms |-> << DomainNode(S_CL) >>, graph |-> Nodes1(vo, vw)],
      [doms |-> << DomainNode(S_CL), DomainNode(S_CM) >>, graph |-> Nodes2(vo, vw)],
      [doms |-> << DomainNode(S_CM), DomainNode(S_CL) >>, graph |-> Nodes2(vo, vw)] }

(* ------------------------------ the inputs ---------------------------- *)

Ops == {"add_user_bh", "mark_web_client_enabled"}

Prop(o) == IF o = "add_user_bh" THEN "owned" ELSE "webclientrunning"

\* (user, domain) pairs of the single-string form: exact and prefix
\* resolution, lower case, a leading part of a stored domain, an empty
\* domain, an unknown domain, an account that no node matches, an empty user
\* name and no domain at all.
StrInputs ==
    { <<S_A, S_CL>>, <<S_a, S_cl>>, <<S_A, S_C>>, <<S_A, S_empty>>, <<S_A, S_X>>,
      <<S_W, S_CL>>, <<S_w, S_X>>, <<S_W1, S_X>>, <<S_W1, S_CM>>,
      <<S_X, S_X>>, <<S_empty, S_CL>>, <<S_A, None>> }

Rec(u, d) == [username |-> u, domain |-> d]

\* Records of the list form: a machine that one Computer node matches (by
\* prefix when its domain is not in the graph, not found by exact match when
\* it is) and a machine name that is a prefix of two Computer nodes.
ListRecords == { Rec(S_W1, S_CM), Rec(S_W, S_X) }

RECURSIVE SeqsUpTo(_, _)
SeqsUpTo(S, n) ==
    IF n = 0 THEN { <<>> }
    ELSE LET shorter == SeqsUpTo(S, n - 1)
         IN  shorter \cup { Append(s, x) : s \in shorter, x \in S }

Batches == SeqsUpTo(ListRecords, MaxBatch)

\* What the datastore can raise when the transaction is begun, and what it
\* can raise from a query or from the commit of an open transaction.
FaultKinds == {"AuthError", "ServiceUnavailable", "Neo4jError"}

QueryFaultKinds == {"ServiceUnavailable", "Neo4jError"}

NoPrev == [op |-> "none"]

NoArg == [form |-> "none"]

(* ------------------------ queries and classification ------------------ *)

Indices(view) == [k \in 1..Len(view) |-> k]

\* MATCH (d:Domain) WHERE d.distinguishedname STARTS WITH '<dn>' RETURN d
DoesDomainExistInBloodhound(distinguished_name, D) ==
    SelectSeq(D, LAMBDA d : StartsWith(d.distinguishedname, distinguished_name))

\* The "$" is tested but not cut off.
ParseUserOrMachineAccount_KeepsMarker(user_info, domain) ==
    LET username == user_info.username
    IN  IF username[Len(username)] = "$"
        THEN [name |-> IF domain # None THEN username \o <<".">> \o domain
                                          ELSE username,
              account_type |-> "Computer"]
        ELSE [name |-> IF domain # None THEN username \o <<"@">> \o domain
                                          ELSE username,
              account_type |-> "User"]

\* user_info["username"] is not empty here: username[-1] of "" raises IndexError,
\* which the callers below turn into the exception outcome.
ParseUserOrMachineAccount(user_info, domain) ==
    LET username == user_info.username
        stripped == SubSeq(username, 1, Len(username) - 1)
    IN  IF username[Len(username)] = "$"
        THEN [name |-> IF domain # None THEN stripped \o <<".">> \o domain
                                          ELSE stripped,
              account_type |-> "Computer"]
        ELSE [name |-> IF domain # None THEN username \o <<"@">> \o domain
                                          ELSE username,
              account_type |-> "User"]

\* MATCH (c:<label> {name:'<name>'}) RETURN c
MatchExact(view, label, name) ==
    SelectSeq(Indices(view),
              LAMBDA k : view[k].label = label /\ view[k].name = name)

\* MATCH (c:<label>) WHERE c.name STARTS WITH '<prefix>' RETURN c
MatchPrefix(view, label, prefix) ==
    SelectSeq(Indices(view),
              LAMBDA k : view[k].label = label /\ StartsWith(view[k].name, prefix))

\* The write query without its name key: MATCH (c:<label>) SET c.<p>=True.
SetProperty_AllOfLabel(view, label, name, p) ==
    [k \in 1..Len(view) |->
        IF view[k].label = label
        THEN [view[k] EXCEPT ![p] = "true"]
        ELSE view[k]]

\* The write query replacing the node's properties instead of setting one:
\* MATCH (c:<label> {name:'<name>'}) SET c = {name: c.name, <p>: True}.
SetProperty_ReplacesAll(view, label, name, p) ==
    [k \in 1..Len(view) |->
        IF view[k].label = label /\ view[k].name = name
        THEN [[view[k] EXCEPT !.owned = "null", !.webclientrunning = "null"]
                 EXCEPT ![p] = "true"]
        ELSE view[k]]

\* MATCH (c:<label> {name:'<name>'}) SET c.<p>=True RETURN c.name AS name
SetProperty(view, label, name, p) ==
    [k \in 1..Len(view) |->
        IF view[k].label = label /\ view[k].name = name
        THEN [view[k] EXCEPT ![p] = "true"]
        ELSE view[k]]

\* What one record's processing leaves behind: the strategy and the
\* classification used, the rows the match returned, the value read, the
\* outcome, the number of write queries and the logger channel and message.
Entry(strategy, domain, acct, matched, before, outcome, writes, channel, msg) ==
    [strategy |-> strategy, domain |-> domain,
     account_type |-> acct.account_type, name |-> acct.name,
     matched |-> matched, before |-> before, outcome |-> outcome,
     writes |-> writes, channel |-> channel, msg |-> msg]

NoAcct == [name |-> <<>>, account_type |-> "none"]

Raised(strategy, domain, acct, matched, e, view) ==
    [entry |-> Entry(strategy, domain, acct, matched, "none", "Raised", 0, "none", "none"),
     view |-> view, exc |-> e]

Returned(entry, view) == [entry |-> entry, view |-> view, exc |-> "none"]

NeedsWrite_Always(value) == TRUE

\* <property> in (False, None)
NeedsWrite(value) == value \in {"false", "null"}

\* _add_with_domain without the return after "Account not found": it goes on
\* to result[0] of an empty list.
AddWithDomain_NoReturn(user_info, domain, view) ==
    IF user_info.username = <<>>
    THEN Raised("exact", domain, NoAcct, <<>>, "IndexError", view)
    ELSE
    LET acct   == ParseUserOrMachineAccount(user_info, domain)
        result == MatchExact(view, acct.account_type, acct.name)
    IN  IF Len(result) = 0
        THEN Raised("exact", domain, acct, result, "IndexError", view)
        ELSE IF NeedsWrite(view[result[1]].owned)
        THEN Returned(Entry("exact", domain, acct, result, view[result[1]].owned,
                            "Updated", 1, "highlight", "OwnedSet"),
                      SetProperty(view, acct.account_type, acct.name, "owned"))
        ELSE Returned(Entry("exact", domain, acct, result, view[result[1]].owned,
                            "AlreadySet", 0, "none", "none"), view)

AddWithDomain(user_info, domain, view) ==
    IF user_info.username = <<>>
    THEN Raised("exact", domain, NoAcct, <<>>, "IndexError", view)
    ELSE
    LET acct   == ParseUserOrMachineAccount(user_info, domain)
        result == MatchExact(view, acct.account_type, acct.name)
    IN  IF Len(result) = 0
        THEN Returned(Entry("exact", domain, acct, result, "none", "NotFound", 0,
                            "fail", "AccountNotFound"), view)
        ELSE IF NeedsWrite(view[result[1]].owned)
        THEN Returned(Entry("exact", domain, acct, result, view[result[1]].owned,
                            "Updated", 1, "highlight", "OwnedSet"),
                      SetProperty(view, acct.account_type, acct.name, "owned"))
        ELSE Returned(Entry("exact", domain, acct, result, view[result[1]].owned,
                            "AlreadySet", 0, "none", "none"), view)

AddWithoutDomain(user_info, view) ==
    IF user_info.username = <<>>
    THEN Raised("prefix", None, NoAcct, <<>>, "IndexError", view)
    ELSE
    LET acct   == ParseUserOrMachineAccount(user_info, None)
        result == MatchPrefix(view, acct.account_type, acct.name)
    IN  IF Len(result) = 0
        THEN Returned(Entry("prefix", None, acct, result, "none", "NotFound", 0,
                            "fail", "AccountNotFound"), view)
        ELSE IF Len(result) >= 2
        THEN Returned(Entry("prefix", None, acct, result, "none", "Ambiguous", 0,
                            "fail", "MultipleAccounts"), view)
        ELSE IF NeedsWrite(view[result[1]].owned)
        THEN Returned(Entry("prefix", None, acct, result, view[result[1]].owned,
                            "Updated", 1, "highlight", "OwnedSet"),
                      SetProperty(view, acct.account_type, view[result[1]].name, "owned"))
        ELSE Returned(Entry("prefix", None, acct, result, view[result[1]].owned,
                            "AlreadySet", 0, "none", "none"), view)

\* The write query copied from _add_with_domain with its SET c.owned left in.
AdjustWebclientPropertyWithDomain_SetsOwned(machine_info, domain, view) ==
    IF machine_info.username = <<>>
    THEN Raised("exact", domain, NoAcct, <<>>, "IndexError", view)
    ELSE
    LET acct   == ParseUserOrMachineAccount(machine_info, domain)
        result == MatchExact(view, acct.account_type, acct.name)
    IN  IF Len(result) = 0
        THEN Returned(Entry("exact", domain, acct, result, "none", "NotFound", 0,
                            "fail", "ComputerNotFound"), view)
        ELSE IF NeedsWrite(view[result[1]].webclientrunning)
        THEN Returned(Entry("exact", domain, acct, result,
                            view[result[1]].webclientrunning,
                            "Updated", 1, "highlight", "WebclientNoted"),
                      SetProperty(view, acct.account_type, acct.name, "owned"))
        ELSE Returned(Entry("exact", domain, acct, result,
                            view[result[1]].webclientrunning,
                            "AlreadySet", 0, "none", "none"), view)

AdjustWebclientPropertyWithDomain(machine_info, domain, view) ==
    IF machine_info.username = <<>>
    THEN Raised("exact", domain, NoAcct, <<>>, "IndexError", view)
    ELSE
    LET acct   == ParseUserOrMachineAccount(machine_info, domain)
        result == MatchExact(view, acct.account_type, acct.name)
    IN  IF Len(result) = 0
        THEN Returned(Entry("exact", domain, acct, result, "none", "NotFound", 0,
                            "fail", "ComputerNotFound"), view)
        ELSE IF NeedsWrite(view[result[1]].webclientrunning)
        THEN Returned(Entry("exact", domain, acct, result,
                            view[result[1]].webclientrunning,
                            "Updated", 1, "highlight", "WebclientNoted"),
                      SetProperty(view, acct.account_type, acct.name, "webclientrunning"))
        ELSE Returned(Entry("exact", domain, acct, result,
                            view[result[1]].webclientrunning,
                            "AlreadySet", 0, "none", "none"), view)

\* With two or more rows the failure message indexes the canonical-name
\* string by "username" (line 151), which raises TypeError before anything is
\* logged.
AdjustWebclientPropertyWithoutDomain(machine_info, view) ==
    IF machine_info.username = <<>>
    THEN Raised("prefix", None, NoAcct, <<>>, "IndexError", view)
    ELSE
    LET acct   == ParseUserOrMachineAccount(machine_info, None)
        result == MatchPrefix(view, acct.account_type, acct.name)
    IN  IF Len(result) = 0
        THEN Returned(Entry("prefix", None, acct, result, "none", "NotFound", 0,
                            "fail", "AccountNotFound"), view)
        ELSE IF Len(result) >= 2
        THEN Raised("prefix", None, acct, result, "TypeError", view)
        ELSE IF NeedsWrite(view[result[1]].webclientrunning)
        THEN Returned(Entry("prefix", None, acct, result,
                            view[result[1]].webclientrunning,
                            "Updated", 1, "highlight", "WebclientNoted"),
                      SetProperty(view, acct.account_type, view[result[1]].name,
                                  "webclientrunning"))
        ELSE Returned(Entry("prefix", None, acct, result,
                            view[result[1]].webclientrunning,
                            "AlreadySet", 0, "none", "none"), view)

\* The body of the for loop of either operation for one record
\* (lines 35-42 and 90-97).
LoopBody(o, info, D, view) ==
    IF info.domain = None
    THEN Raised("none", None, NoAcct, <<>>, "AttributeError", view)
    ELSE
    LET distinguished_name == DistinguishedName(info.domain)
        domain_query == DoesDomainExistInBloodhound(distinguished_name, D)
    IN  IF domain_query = <<>>
        THEN IF o = "add_user_bh"
             THEN AddWithoutDomain(info, view)
             ELSE AdjustWebclientPropertyWithoutDomain(info, view)
        ELSE IF o = "add_user_bh"
             THEN AddWithDomain(info, domain_query[1].name, view)
             ELSE AdjustWebclientPropertyWithDomain(info, domain_query[1].name, view)

\* The whole for loop without a datastore failure: it stops at the first
\* record that raises.
RECURSIVE RunBatch(_, _, _, _)
RunBatch(o, records, D, view) ==
    IF records = <<>>
    THEN [out |-> <<>>, view |-> view, exc |-> "none"]
    ELSE LET r == LoopBody(o, Head(records), D, view)
         IN  IF r.exc # "none"
             THEN [out |-> <<r.entry>>, view |-> view, exc |-> r.exc]
             ELSE LET rest == RunBatch(o, Tail(records), D, r.view)
                  IN  [out |-> <<r.entry>> \o rest.out, view |-> rest.view,
                       exc |-> rest.exc]

Normalize_NoUpper(a) ==
    IF a.form = "str"
    THEN << Rec(a.user, a.domain) >>
    ELSE a.records

\* Lines 22-26 and 75-79.
Normalize(a) ==
    IF a.form = "str"
    THEN << Rec(Upper(a.user), Upper(a.domain)) >>
    ELSE a.records

(* ------------------------------ the calls ----------------------------- *)

StrArg(user, domain, enabled) ==
    [form |-> "str", user |-> user, domain |-> domain, records |-> <<>>,
     enabled |-> enabled]

ListArg(records, enabled) ==
    [form |-> "list", user |-> <<>>, domain |-> <<>>, records |-> records,
     enabled |-> enabled]

Args ==
    { StrArg(p[1], p[2], e) : p \in StrInputs, e \in BOOLEAN }
    \cup { ListArg(b, e) : b \in Batches, e \in BOOLEAN }

\* The except clauses of the operation: the fail message each exception gets.
\* mark_web_client_enabled has a ValueError clause that add_user_bh has not.
FailMessage(o, e) ==
    CASE e = "ValueError" /\ o = "mark_web_client_enabled" -> "NotMachineAccount"
      [] e = "AuthError" -> "BadCredentials"
      [] e = "ServiceUnavailable" -> "Unavailable"
      [] OTHER -> "Unexpected"

FaultEntry == Entry("none", None, NoAcct, <<>>, "none", "Fault", 0, "none", "none")

TypeOK ==
    /\ pc \in {"idle", "connected", "in_tx", "except", "done", "raised"}
    /\ op \in Ops \cup {"none"}
    /\ openConns \in 0..MaxCalls
    /\ calls \in 0..MaxCalls
    /\ i \in 1..(MaxBatch + 1)
    /\ Len(out) <= MaxBatch

Init ==
    /\ \E v \in PropVals :
         \E db \in Databases(v, v) :
            /\ graph = db.graph
            /\ doms = db.doms
            /\ tx = db.graph
    /\ pc = "idle"
    /\ op = "none"
    /\ arg = NoArg
    /\ batch = <<>>
    /\ i = 1
    /\ out = <<>>
    /\ exc = "none"
    /\ fatal = "none"
    /\ openConns = 0
    /\ calls = 0
    /\ prev = NoPrev
    /\ sessions = <<>>
    /\ graph0 = <<>>

\* bh_enabled compared with the boolean False instead of the string "False":
\* the test never fails and the connection is always opened.
CallOp_IgnoresEnabled(o, a, connect_ok) ==
    /\ pc = "idle"
    /\ calls < MaxCalls
    /\ calls' = calls + 1
    /\ op' = o
    /\ arg' = a
    /\ i' = 1
    /\ out' = <<>>
    /\ fatal' = "none"
    /\ IF a.form = "str" /\ a.domain = None
       THEN /\ pc' = "raised"
            /\ exc' = "AttributeError"
            /\ batch' = <<>>
            /\ UNCHANGED openConns
       ELSE /\ batch' = Normalize(a)
            /\ IF connect_ok
               THEN pc' = "connected" /\ exc' = "none" /\ openConns' = openConns + 1
               ELSE pc' = "raised" /\ exc' = "DriverError" /\ UNCHANGED openConns
    /\ UNCHANGED <<graph, doms, tx, prev>>
    /\ UNCHANGED cvars

\* Entry of a public operation up to the try statement: the normalisation of
\* the input, the bh_enabled test and _initiate_bloodhound_connection, which
\* is called before the try and so propagates what it raises.
CallOp(o, a, connect_ok) ==
    /\ pc = "idle"
    /\ calls < MaxCalls
    /\ calls' = calls + 1
    /\ op' = o
    /\ arg' = a
    /\ i' = 1
    /\ out' = <<>>
    /\ fatal' = "none"
    /\ IF a.form = "str" /\ a.domain = None
       THEN /\ pc' = "raised"
            /\ exc' = "AttributeError"
            /\ batch' = <<>>
            /\ UNCHANGED openConns
       ELSE /\ batch' = Normalize(a)
            /\ IF ~a.enabled
               THEN pc' = "done" /\ exc' = "none" /\ UNCHANGED openConns
               ELSE IF connect_ok
               THEN pc' = "connected" /\ exc' = "none" /\ openConns' = openConns + 1
               ELSE pc' = "raised" /\ exc' = "DriverError" /\ UNCHANGED openConns
    /\ UNCHANGED <<graph, doms, tx, prev>>
    /\ UNCHANGED cvars

add_user_bh ==
    \E a \in Args, connect_ok \in BOOLEAN : CallOp("add_user_bh", a, connect_ok)

mark_web_client_enabled ==
    \E a \in Args, connect_ok \in BOOLEAN :
        CallOp("mark_web_client_enabled", a, connect_ok)

\* driver.session().begin_transaction(): the transaction sees the committed
\* graph, or the datastore refuses.
BeginTransaction ==
    /\ pc = "connected"
    /\ \/ /\ pc' = "in_tx"
          /\ tx' = graph
          /\ UNCHANGED exc
       \/ \E k \in FaultKinds :
             /\ pc' = "except"
             /\ exc' = k
             /\ UNCHANGED tx
    /\ UNCHANGED <<graph, doms, op, arg, batch, i, out, fatal, openConns, calls, prev>>
    /\ UNCHANGED cvars

\* One iteration of the for loop: the record is resolved and reconciled, or
\* one of its queries fails in the datastore.
ProcessRecord ==
    /\ pc = "in_tx"
    /\ i <= Len(batch)
    /\ \/ LET r == LoopBody(op, batch[i], doms, tx)
          IN  /\ out' = Append(out, r.entry)
              /\ tx' = r.view
              /\ exc' = r.exc
              /\ IF r.exc = "none"
                 THEN pc' = "in_tx" /\ i' = i + 1
                 ELSE pc' = "except" /\ UNCHANGED i
       \/ \E k \in QueryFaultKinds :
             /\ out' = Append(out, FaultEntry)
             /\ exc' = k
             /\ pc' = "except"
             /\ UNCHANGED <<tx, i>>
    /\ UNCHANGED <<graph, doms, op, arg, batch, fatal, openConns, calls, prev>>
    /\ UNCHANGED cvars

\* The with block left without the commit taking effect.
ExitTransaction_NoCommit ==
    /\ pc = "in_tx"
    /\ i > Len(batch)
    /\ pc' = "done"
    /\ openConns' = openConns - 1
    /\ UNCHANGED <<graph, doms, op, arg, batch, i, tx, out, exc, fatal, calls, prev>>
    /\ UNCHANGED cvars

\* Normal exit of the with block: the transaction commits and the finally
\* clause closes the driver, or the commit fails.
ExitTransaction ==
    /\ pc = "in_tx"
    /\ i > Len(batch)
    /\ \/ /\ graph' = tx
          /\ pc' = "done"
          /\ openConns' = openConns - 1
          /\ UNCHANGED exc
       \/ \E k \in QueryFaultKinds :
             /\ pc' = "except"
             /\ exc' = k
             /\ UNCHANGED <<graph, openConns>>
    /\ UNCHANGED <<doms, op, arg, batch, i, tx, out, fatal, calls, prev>>
    /\ UNCHANGED cvars

\* The except clause returning without the finally clause being run.
HandleException_NoClose ==
    /\ pc = "except"
    /\ tx' = graph
    /\ fatal' = FailMessage(op, exc)
    /\ pc' = "done"
    /\ UNCHANGED <<graph, doms, op, arg, batch, i, out, exc, openConns, calls, prev>>
    /\ UNCHANGED cvars

\* The with block committing on every exit, by an exception too.
HandleException_Commits ==
    /\ pc = "except"
    /\ graph' = tx
    /\ fatal' = FailMessage(op, exc)
    /\ pc' = "done"
    /\ openConns' = openConns - 1
    /\ UNCHANGED <<tx, doms, op, arg, batch, i, out, exc, calls, prev>>
    /\ UNCHANGED cvars

\* Exit of the with block by an exception (the transaction is not
\* committed), the except clause that logs it and the finally clause that
\* closes the driver.
HandleException ==
    /\ pc = "except"
    /\ tx' = graph
    /\ fatal' = FailMessage(op, exc)
    /\ pc' = "done"
    /\ openConns' = openConns - 1
    /\ UNCHANGED <<graph, doms, op, arg, batch, i, out, exc, calls, prev>>
    /\ UNCHANGED cvars

\* What the next call can be compared with: a call on one account that ran
\* to its end, resolved the account to one node and updated it.
Summary ==
    IF /\ pc = "done" /\ arg.enabled /\ exc = "none"
       /\ Len(batch) = 1 /\ Len(out) = 1
       /\ out[1].outcome = "Updated" /\ Len(out[1].matched) = 1
    THEN [op |-> op, rec |-> batch[1]]
    ELSE NoPrev

\* Control is back in the caller, normally or with the exception.
Return ==
    /\ pc \in {"done", "raised"}
    /\ prev' = Summary
    /\ pc' = "idle"
    /\ op' = "none"
    /\ arg' = NoArg
    /\ batch' = <<>>
    /\ i' = 1
    /\ out' = <<>>
    /\ exc' = "none"
    /\ fatal' = "none"
    /\ UNCHANGED <<graph, doms, tx, openConns, calls>>
    /\ UNCHANGED cvars

Next ==
    \/ add_user_bh
    \/ mark_web_client_enabled
    \/ BeginTransaction
    \/ ProcessRecord
    \/ ExitTransaction
    \/ HandleException
    \/ Return

Spec == Init /\ [][Next]_vars

(* ------------------------------ properties ---------------------------- *)

\* The record of the batch that the step from the current state has just
\* processed, when that step is an iteration of the for loop.
LoopStep == pc = "in_tx" /\ Len(out') = Len(out) + 1

LastEntry(o) == o[Len(o)]

\* The loop is over and no query failed in the datastore.
LoopDone == pc = "in_tx" /\ i > Len(batch)

\* C1: over any sequence of calls of either operation, a loop iteration
\* changes a node's property in the transaction only when the value stored on
\* the matched node is not true, and then it issued a write query; when the
\* value stored on the node the match returned is already true, the record
\* ends as AlreadySet with no write query and nothing changes.
C1_WriteOnlyWhenValueDiffers ==
    [][ LoopStep =>
          LET e == LastEntry(out')
              p == Prop(op)
              resolved == /\ e.outcome \in {"Updated", "AlreadySet", "NotFound", "Ambiguous"}
                          /\ \/ e.strategy = "exact" /\ Len(e.matched) >= 1
                             \/ e.strategy = "prefix" /\ Len(e.matched) = 1
          IN  /\ \A n \in 1..Len(tx) :
                    tx'[n] # tx[n] =>
                       /\ tx[n][p] # "true"
                       /\ tx'[n][p] = "true"
                       /\ e.writes = 1
                       /\ e.outcome = "Updated"
              /\ e.writes > 0 => /\ Len(e.matched) >= 1
                                 /\ tx[e.matched[1]][p] # "true"
              /\ (resolved /\ tx[e.matched[1]][p] = "true") =>
                    /\ e.outcome = "AlreadySet"
                    /\ e.writes = 0
                    /\ tx' = tx
      ]_vars

\* C1 witness: a batch that names the same account twice, Updated for the
\* first record and AlreadySet for the second.
C1_Witness ==
    /\ LoopDone
    /\ Len(batch) = 2
    /\ batch[1] = batch[2]
    /\ out[1].outcome = "Updated"
    /\ out[2].outcome = "AlreadySet"
    /\ out[2].writes = 0

\* The previous call was the same operation on the same single account and
\* domain as the current one, it was Updated on the one node it resolved to,
\* and both calls ran to the end without an error.
SameCallTwice ==
    /\ LoopDone
    /\ Len(batch) = 1
    /\ prev.op = op
    /\ prev.rec = batch[1]

\* C2: a call with one account and domain that resolves to exactly one node
\* whose property is not yet true is Updated; when the call before it was the
\* same operation with the same account and domain and was Updated on one
\* node, the call is AlreadySet and has nothing to commit: the stored value
\* stays the true that the first call left.
C2_SecondCallAlreadySet ==
    (LoopDone /\ Len(batch) = 1) =>
        /\ (Len(out[1].matched) = 1 /\ out[1].before # "true") =>
               out[1].outcome = "Updated"
        /\ SameCallTwice =>
               /\ out[1].outcome = "AlreadySet"
               /\ tx = graph
               /\ Len(out[1].matched) = 1
               /\ graph[out[1].matched[1]][Prop(op)] = "true"

\* C2 witness: such a pair of calls, for the domainless strategy.
C2_Witness ==
    /\ SameCallTwice
    /\ out[1].strategy = "prefix"
    /\ out[1].outcome = "AlreadySet"

\* C3: for both operations, a record whose domainless prefix match returned
\* two or more nodes gets the Ambiguous outcome, reported on the fail channel
\* as "Multiple accounts found", and no write.
C3_AmbiguousReported ==
    \A k \in 1..Len(out) :
        (out[k].strategy = "prefix" /\ Len(out[k].matched) >= 2) =>
            /\ out[k].outcome = "Ambiguous"
            /\ out[k].channel = "fail"
            /\ out[k].msg = "MultipleAccounts"
            /\ out[k].writes = 0

\* C4: for both operations and both strategies, a record whose match returned
\* no node is reported NotFound on the fail channel, issues no write and
\* leaves the transaction's view and the committed graph unchanged.
C4_NotFoundNoWrite ==
    [][ (LoopStep /\ LastEntry(out').account_type # "none"
                  /\ LastEntry(out').matched = <<>>) =>
          LET e == LastEntry(out')
          IN  /\ e.outcome = "NotFound"
              /\ e.channel = "fail"
              /\ e.msg \in {"AccountNotFound", "ComputerNotFound"}
              /\ e.writes = 0
              /\ tx' = tx
              /\ graph' = graph
      ]_vars

\* C4 witness: NotFound from the exact match; NotFound from the prefix match
\* is reachable as well (C4_WitnessPrefix).
C4_Witness ==
    \E k \in 1..Len(out) :
        /\ out[k].strategy = "exact"
        /\ out[k].matched = <<>>
        /\ out[k].outcome = "NotFound"
        /\ out[k].channel = "fail"

C4_WitnessPrefix ==
    \E k \in 1..Len(out) :
        /\ out[k].strategy = "prefix"
        /\ out[k].matched = <<>>
        /\ out[k].outcome = "NotFound"

\* A Domain node whose name is the record's domain.
DomainKnown(d) == \E j \in 1..Len(doms) : doms[j].name = d

\* C5: a record whose domain has no Domain node (an empty domain and a
\* leading part of a stored domain included) is resolved by prefix match on
\* the bare name; a record whose domain has a Domain node is resolved by
\* exact match on the name qualified with that domain.
C5_StrategyByKnownDomain ==
    \A k \in 1..Len(out) :
        out[k].strategy # "none" =>
            IF DomainKnown(batch[k].domain)
            THEN out[k].strategy = "exact" /\ out[k].domain = batch[k].domain
            ELSE out[k].strategy = "prefix"

LowerChar(c) ==
    CASE c = "A" -> "a"
      [] c = "C" -> "c"
      [] c = "L" -> "l"
      [] c = "M" -> "m"
      [] c = "W" -> "w"
      [] c = "X" -> "x"
      [] OTHER -> c

Lower(s) == [k \in 1..Len(s) |-> LowerChar(s[k])]

UpperRec(r) == Rec(Upper(r.username), Upper(r.domain))

LowerRec(r) == Rec(Lower(r.username), Lower(r.domain))

\* The same input written in upper case and in lower case.
CaseVariants(a) ==
    { [a EXCEPT !.user = Upper(a.user), !.domain = Upper(a.domain),
                !.records = [k \in 1..Len(a.records) |-> UpperRec(a.records[k])]],
      [a EXCEPT !.user = Lower(a.user), !.domain = Lower(a.domain),
                !.records = [k \in 1..Len(a.records) |-> LowerRec(a.records[k])]] }

\* The nodes each record resolved to and its outcome.
Resolved(o) ==
    [k \in 1..Len(o) |-> [matched |-> o[k].matched, outcome |-> o[k].outcome]]

\* The for loop has ended, by its last record or by an exception of the code,
\* and no query failed in the datastore.
LoopOver ==
    \/ LoopDone
    \/ pc = "except" /\ out # <<>> /\ LastEntry(out).outcome = "Raised"

SameAsCaseVariants ==
    \A a2 \in CaseVariants(arg) :
        LET r == RunBatch(op, Normalize(a2), doms, graph)
        IN  /\ Resolved(r.out) = Resolved(out)
            /\ r.view = tx

\* C6 as claimed: whatever the form of the input, the call resolves the same
\* nodes with the same outcomes and leaves the same graph as the call of the
\* same operation, on the same graph, with the input written in another case.
C6_CaseInsensitive == LoopOver => SameAsCaseVariants

\* C6 amended: the same, for an account and domain passed as single strings.
C6_CaseInsensitiveStr == (LoopOver /\ arg.form = "str") => SameAsCaseVariants

\* C6 witness: a lower-case account and domain passed as strings and Updated.
C6_Witness ==
    /\ LoopOver
    /\ arg.form = "str"
    /\ arg.user = S_a
    /\ arg.domain = S_cl
    /\ out[1].outcome = "Updated"

\* The classification rule as the claim words it.
Classified(identifier, domain) ==
    IF identifier # <<>> /\ identifier[Len(identifier)] = "$"
    THEN [account_type |-> "Computer",
          name |-> SubSeq(identifier, 1, Len(identifier) - 1)
                   \o (IF domain # None THEN <<".">> \o domain ELSE <<>>)]
    ELSE [account_type |-> "User",
          name |-> identifier
                   \o (IF domain # None THEN <<"@">> \o domain ELSE <<>>)]

ClassifiedAsClaimed(k) ==
    LET c == Classified(batch[k].username, out[k].domain)
    IN  /\ out[k].account_type = c.account_type
        /\ out[k].name = c.name

FrameOf(g, h, o) ==
    /\ Len(h) = Len(g)
    /\ \A n \in 1..Len(g) :
          /\ h[n].label = g[n].label
          /\ h[n].name = g[n].name
          /\ \A p \in {"owned", "webclientrunning"} :
                h[n][p] # g[n][p] => p = Prop(o)

\* C8: no step of any operation adds or removes a node or changes a node's
\* label or name, in the committed graph or in the transaction's view; the
\* only property a step changes is owned in add_user_bh and webclientrunning
\* in mark_web_client_enabled.
C8_OnlyTheProperty ==
    [][ FrameOf(graph, graph', op) /\ FrameOf(tx, tx', op) ]_vars

\* C8 witness: a call has committed a write.
C8_Witness ==
    /\ pc = "done"
    /\ exc = "none"
    /\ \E k \in 1..Len(out) : out[k].outcome = "Updated"
    /\ \E n \in 1..Len(graph) : graph[n].webclientrunning # graph[n].owned

\* C9: no public operation raises to its caller.
C9_NeverRaises == pc # "raised"

\* C10: when a public operation hands control back, normally or not, and
\* between calls, no connection it opened is still open.
C10_ConnectionClosed == pc \in {"idle", "done", "raised"} => openConns = 0

\* C10 witness: a call that opened a connection and failed mid-batch has
\* returned.
C10_Witness ==
    /\ pc = "done"
    /\ fatal # "none"
    /\ out # <<>>
    /\ openConns = 0

\* C11: a call made with the integration disabled opens no connection, issues
\* no query and changes neither the graph nor a transaction: given an account
\* and a domain of the documented types it goes straight to its return.
C11_DisabledIsNoOp ==
    [][ /\ (pc = "idle" /\ pc' # "idle" /\ ~arg'.enabled) =>
              /\ openConns' = openConns
              /\ graph' = graph
              /\ tx' = tx
              /\ out' = <<>>
              /\ pc' \in {"done", "raised"}
              /\ (arg'.form = "str" /\ arg'.domain = None) \/ pc' = "done"
        /\ (pc # "idle" /\ ~arg.enabled) =>
              /\ pc' = "idle"
              /\ openConns' = openConns
              /\ graph' = graph
              /\ tx' = tx
      ]_vars

\* C11 witness: a disabled call with a record to process has returned and
\* nothing was done.
C11_Witness ==
    /\ pc = "done"
    /\ ~arg.enabled
    /\ batch # <<>>
    /\ out = <<>>
    /\ openConns = 0

\* The identifier of record k is not empty and does not end in "$".
NormalUser(k) ==
    /\ batch[k].username # <<>>
    /\ batch[k].username[Len(batch[k].username)] # "$"

\* C12: mark_web_client_enabled treats a record whose account is a normal
\* user as an error: the record raises, no write is issued for it, and the
\* call ends with the failure "Inputted account (...) is not a machine
\* account".
C12_UserAccountRejected ==
    op = "mark_web_client_enabled" =>
        \A k \in 1..Len(out) :
            (NormalUser(k) /\ out[k].outcome # "Fault" /\ batch[k].domain # None) =>
                /\ out[k].outcome = "Raised"
                /\ out[k].writes = 0
                /\ pc = "done" => fatal = "NotMachineAccount"


(* ---------------- two calls at the same time (C13) -------------------- *)

\* Two callers, each in its own call with its own driver, session and
\* transaction against the same database.
Sessions == {1, 2}

ConcRecords == { Rec(S_W, S_CL), Rec(S_W1, S_CL), Rec(S_W, S_X) }

ConcBatches == SeqsUpTo(ConcRecords, MaxBatch)

\* A call that has opened its transaction and is about to process its first
\* record.  pending is the set of nodes the transaction has written and not
\* yet committed (it holds their write locks), target the nodes the SET query
\* it is about to run will write.
NewSession(o, records) ==
    [op |-> o, batch |-> records, i |-> 1, phase |-> "read",
     target |-> {}, pending |-> {}, exc |-> "none"]

\* What the queries of session p see: the committed graph and the session's
\* own uncommitted writes (read committed).
SessionView(p) ==
    [k \in 1..Len(graph) |->
        IF k \in sessions[p].pending
        THEN [graph[k] EXCEPT ![Prop(sessions[p].op)] = "true"]
        ELSE graph[k]]

InitConcurrent ==
    /\ \E v \in PropVals :
         \E db \in Databases(v, v) :
            /\ graph = db.graph
            /\ doms = db.doms
            /\ tx = db.graph
            /\ graph0 = db.graph
    /\ sessions \in [Sessions -> { NewSession(o, b) : o \in Ops, b \in ConcBatches }]
    /\ pc = "idle"
    /\ op = "none"
    /\ arg = NoArg
    /\ batch = <<>>
    /\ i = 1
    /\ out = <<>>
    /\ exc = "none"
    /\ fatal = "none"
    /\ openConns = 0
    /\ calls = 0
    /\ prev = NoPrev

\* The domain query and the match query of the current record, and what the
\* helper decides from the rows: return (NotFound, Ambiguous, AlreadySet), go
\* on to the SET query, or raise, which leaves the with block by an exception
\* and rolls the transaction back.
ReadRecord(p) ==
    LET s == sessions[p]
        view == SessionView(p)
    IN  /\ sessions # <<>>
        /\ s.phase = "read"
        /\ s.i <= Len(s.batch)
        /\ LET r == LoopBody(s.op, s.batch[s.i], doms, view)
           IN  sessions' = [sessions EXCEPT ![p] =
                  IF r.exc # "none"
                  THEN [s EXCEPT !.phase = "done", !.pending = {}, !.exc = r.exc]
                  ELSE IF r.entry.outcome = "Updated"
                  THEN [s EXCEPT !.phase = "write",
                                 !.target = { k \in 1..Len(view) : r.view[k] # view[k] }]
                  ELSE [s EXCEPT !.i = s.i + 1]]
        /\ UNCHANGED <<graph, doms, graph0, svars>>

\* The SET query: it takes the write lock of the node, which it gets once no
\* other transaction holds it, and keeps it until its transaction ends.
WriteRecord(p) ==
    LET s == sessions[p]
    IN  /\ sessions # <<>>
        /\ s.phase = "write"
        /\ \A q \in Sessions \ {p} : sessions[q].pending \cap s.target = {}
        /\ sessions' = [sessions EXCEPT ![p] =
              [s EXCEPT !.phase = "read", !.pending = s.pending \cup s.target,
                        !.target = {}, !.i = s.i + 1]]
        /\ UNCHANGED <<graph, doms, graph0, svars>>

\* Two SET queries that wait for each other's lock: the database ends one of
\* them with a transient error, which the operation's except Exception
\* catches after the with block has rolled the transaction back.
DeadlockDetected(p) ==
    LET s == sessions[p]
    IN  /\ sessions # <<>>
        /\ s.phase = "write"
        /\ \E q \in Sessions \ {p} :
              /\ sessions[q].phase = "write"
              /\ sessions[q].pending \cap s.target # {}
              /\ s.pending \cap sessions[q].target # {}
        /\ sessions' = [sessions EXCEPT ![p] =
              [s EXCEPT !.phase = "done", !.pending = {}, !.target = {},
                        !.exc = "TransientError"]]
        /\ UNCHANGED <<graph, doms, graph0, svars>>

\* The with block is left after the last record: the transaction commits.
CommitSession(p) ==
    LET s == sessions[p]
    IN  /\ sessions # <<>>
        /\ s.phase = "read"
        /\ s.i > Len(s.batch)
        /\ graph' = SessionView(p)
        /\ sessions' = [sessions EXCEPT ![p] =
              [s EXCEPT !.phase = "done", !.pending = {}]]
        /\ UNCHANGED <<doms, graph0, svars>>

NextConcurrent ==
    \/ \E p \in Sessions : ReadRecord(p)
    \/ \E p \in Sessions : WriteRecord(p)
    \/ \E p \in Sessions : DeadlockDetected(p)
    \/ \E p \in Sessions : CommitSession(p)

SpecConcurrent == InitConcurrent /\ [][NextConcurrent]_vars

\* The graph one call alone leaves behind when it starts on graph g.
CallAlone(s, g) ==
    LET r == RunBatch(s.op, s.batch, doms, g)
    IN  IF r.exc = "none" THEN r.view ELSE g

SerialOrder(p, q) == CallAlone(sessions[q], CallAlone(sessions[p], graph0))

AllReturned ==
    /\ sessions # <<>>
    /\ \A p \in Sessions : sessions[p].phase = "done"

\* C13: when two calls run at the same time, each on its own connection and
\* transaction, the graph they leave behind is the graph that running the two
\* calls one after the other, in one of the two orders, leaves behind.
C13_SerialOrderEquivalent ==
    AllReturned => graph \in { SerialOrder(1, 2), SerialOrder(2, 1) }


(* ------------------------- C14 .. C18 --------------------------------- *)

\* C14: a loop iteration that ends as Updated changes the property on exactly
\* one node of the transaction's view, the one node its match query returned,
\* in the domain-qualified path and in the domainless path alike; every other
\* node, a node whose name shares the prefix included, is left as it was.
C14_UpdatedWritesTheMatchedNode ==
    [][ (LoopStep /\ LastEntry(out').outcome = "Updated") =>
          LET e == LastEntry(out')
          IN  /\ Len(e.matched) = 1
              /\ Len(tx') = Len(tx)
              /\ { n \in 1..Len(tx) : tx'[n] # tx[n] } = { e.matched[1] }
              /\ tx'[e.matched[1]] = [tx[e.matched[1]] EXCEPT ![Prop(op)] = "true"]
      ]_vars

\* C14 witness: the domainless path updated the one node its prefix matched
\* while another node of the same label is stored next to it, unchanged.
C14_Witness ==
    /\ pc = "in_tx"
    /\ Len(out) = 1
    /\ out[1].outcome = "Updated"
    /\ out[1].strategy = "prefix"
    /\ tx[out[1].matched[1]][Prop(op)] = "true"
    /\ \E n \in 1..Len(tx) :
          /\ n # out[1].matched[1]
          /\ tx[n].label = tx[out[1].matched[1]].label
          /\ tx[n] = graph[n]

\* The node names the record k of the batch stands for: the identifier
\* without its machine marker, alone or followed by the separator of its
\* principal type and the record's domain.
RecordType(k) ==
    IF batch[k].username[Len(batch[k].username)] = "$" THEN "Computer" ELSE "User"

RecordIdentifier(k) ==
    IF RecordType(k) = "Computer"
    THEN SubSeq(batch[k].username, 1, Len(batch[k].username) - 1)
    ELSE batch[k].username

RecordNames(k) ==
    { RecordIdentifier(k),
      RecordIdentifier(k) \o (IF RecordType(k) = "Computer" THEN <<".">> ELSE <<"@">>)
                          \o batch[k].domain }

\* C15: the node an operation writes for a record has the record's principal
\* type as its label, and as its name the record's canonical name, alone or
\* followed by the record's domain; no node of another account or of the
\* same account name in another domain is written.
C15_WritesTheRecordsAccount ==
    \A k \in 1..Len(out) :
        out[k].writes > 0 =>
            /\ graph[out[k].matched[1]].label = RecordType(k)
            /\ graph[out[k].matched[1]].name \in RecordNames(k)

\* The match query of record k returned no row, or the prefix match returned
\* two or more rows.
NotFoundOrAmbiguous(k) ==
    /\ out[k].account_type # "none"
    /\ \/ Len(out[k].matched) = 0
       \/ out[k].strategy = "prefix" /\ Len(out[k].matched) >= 2

\* C16: a record whose account is not found or is ambiguous ends as NotFound
\* or Ambiguous in both operations, raises nothing, and the loop goes on
\* with the next record.
C16_ExpectedOutcomesNotFatal ==
    \A k \in 1..Len(out) :
        NotFoundOrAmbiguous(k) =>
            /\ out[k].outcome \in {"NotFound", "Ambiguous"}
            /\ (k = Len(out) /\ pc = "in_tx") => i = k + 1
            /\ (k = Len(out)) => pc \notin {"except", "raised"}
            /\ (k = Len(out) /\ pc = "done") => fatal = "none"

\* The call has returned through an except clause: a record of its batch
\* raised, or its query failed in the datastore, after at least one earlier
\* record of the batch was Updated.
FatalAfterUpdate ==
    /\ pc = "done"
    /\ fatal # "none"
    /\ Len(out) >= 2
    /\ LastEntry(out).outcome \in {"Raised", "Fault"}
    /\ \E k \in 1..(Len(out) - 1) : out[k].outcome = "Updated"

\* C17 as the specification states it: after a fatal error in the middle of
\* a batch the writes of the earlier records are committed in the graph.
C17_PartialBatchCommitted ==
    FatalAfterUpdate =>
        \A k \in 1..Len(out) :
            out[k].outcome = "Updated" =>
                graph[out[k].matched[1]][Prop(op)] = "true"

\* C17 as the code behaves: after a fatal error in the middle of a batch the
\* transaction is rolled back, so every node an earlier record updated still
\* stores the value it had before the call, which is not true.
C17_PartialBatchRolledBack ==
    FatalAfterUpdate =>
        /\ tx = graph
        /\ \A k \in 1..Len(out) :
              out[k].outcome = "Updated" =>
                  /\ graph[out[k].matched[1]][Prop(op)] = out[k].before
                  /\ out[k].before # "true"

C17_Witness ==
    /\ FatalAfterUpdate
    /\ Len(out) = 2
    /\ out[1].outcome = "Updated"
    /\ out[2].outcome = "Raised"

\* C18: no step of any operation changes a stored owned or webclientrunning
\* value from true to anything else, and no step removes a node.
C18_TrueStaysTrue ==
    [][ /\ Len(graph') = Len(graph)
        /\ \A n \in 1..Len(graph) :
              \A p \in {"owned", "webclientrunning"} :
                  graph[n][p] = "true" => graph'[n][p] = "true"
      ]_vars

\* C18 witness: the previous call set one property on an account's node, this
\* call of the other operation has set the other one on the same node, and
\* the first is still stored as true.
C18_Witness ==
    /\ pc = "done"
    /\ exc = "none"
    /\ prev # NoPrev
    /\ prev.op # op
    /\ Len(out) = 1
    /\ out[1].outcome = "Updated"
    /\ prev.rec = batch[1]
    /\ graph[out[1].matched[1]][Prop(prev.op)] = "true"
    /\ graph[out[1].matched[1]][Prop(op)] = "true"

====
